---- MODULE Spec2Model ----
(***************************************************************************)
(* A model of the NBA totals prediction-and-backtest engine:               *)
(*   src/src/process.py   calculate_team_totals                            *)
(*   src/src/model.py     is_back_to_back, predict_total                   *)
(*   src/src/advanced_stats.py, injury.py, streaks.py  (the three signals) *)
(*   src/src/edge.py, line_movement.py                                     *)
(*   src/src/backtest.py  backtest_model (the walk-forward loop)           *)
(*   src/schedule_predictions.py  run_predictions (the live path)          *)
(*                                                                         *)
(* Numbers.  Python floats are modelled as exact rationals <<n, d>> in     *)
(* lowest terms with d > 0.  The binary representation error of a float    *)
(* (at most one unit in the last place) is not modelled; round() rounds    *)
(* an exact tie half to even, as Python's round does on a value that is    *)
(* exactly representable.                                                  *)
(*                                                                         *)
(* Data frames are sequences of rows; each row carries its index label.    *)
(* Dates are day numbers (the source's ISO date strings order the same     *)
(* way).                                                                   *)
(***************************************************************************)
EXTENDS Integers, Sequences, FiniteSets, TLC

----------------------------------------------------------------------------
(* Exact rational arithmetic (the float operations of the source).         *)

RECURSIVE GCD(_, _)
GCD(a, b) == IF b = 0 THEN a ELSE GCD(b, a % b)

IAbs(i) == IF i < 0 THEN -i ELSE i

Max(a, b) == IF a >= b THEN a ELSE b

Norm(n, d) ==
    LET g == GCD(IAbs(n), IAbs(d))
        s == IF d < 0 THEN -1 ELSE 1
    IN  <<(s * n) \div g, (s * d) \div g>>

R(n, d) == Norm(n, d)
I(n) == <<n, 1>>

RAdd(x, y) ==
    LET g == GCD(x[2], y[2])
        l == (x[2] \div g) * y[2]
    IN  Norm(x[1] * (l \div x[2]) + y[1] * (l \div y[2]), l)
RNeg(x) == <<-x[1], x[2]>>
RSub(x, y) == RAdd(x, RNeg(y))
RMul(x, y) ==
    LET a == Norm(x[1], y[2])
        b == Norm(y[1], x[2])
    IN  <<a[1] * b[1], a[2] * b[2]>>
RLt(x, y) == RSub(x, y)[1] < 0
RGt(x, y) == RLt(y, x)
RAbs(x) == <<IAbs(x[1]), x[2]>>
(* A value that is not a number (a malformed field, such as the string     *)
(* "N/A"): arithmetic or comparison on it raises TypeError in the source.  *)
NotANumber == <<0, 0>>
IsNum(v) == v[2] # 0

(* round(x, ndigits): to the nearest multiple of 10^-ndigits, ties to even *)
Pow10(k) == IF k = 0 THEN 1 ELSE IF k = 1 THEN 10 ELSE 100
round(x, ndigits) ==
    LET s   == RMul(x, I(Pow10(ndigits)))
        fl  == s[1] \div s[2]
        rem == s[1] - fl * s[2]
        up  == \/ 2 * rem > s[2]
               \/ (2 * rem = s[2] /\ fl % 2 = 1)
    IN  Norm(IF up THEN fl + 1 ELSE fl, Pow10(ndigits))

----------------------------------------------------------------------------
(* Bounds of the model.                                                    *)

(* number of games in the log *)
NGames == 12

----------------------------------------------------------------------------
(* The game log (get_historical_games).                                    *)

Teams == {"BOS", "MIA", "DEN", "LAL"}

(* (home, away) of the game on day p: the three established teams rotate   *)
Matchups == << <<"BOS", "MIA">>, <<"DEN", "BOS">>, <<"MIA", "DEN">>,
               <<"MIA", "BOS">>, <<"BOS", "DEN">>, <<"DEN", "MIA">> >>

Row(label, date, home, away, home_pts, away_pts, sportsbook_total) ==
    [label |-> label, date |-> date, home |-> home, away |-> away,
     home_pts |-> home_pts, away_pts |-> away_pts,
     total_pts |-> IF IsNum(home_pts) /\ IsNum(away_pts)
                   THEN RAdd(home_pts, away_pts) ELSE NotANumber,
     sportsbook_total |-> sportsbook_total]

(* the regular game of day p (label filled in by the frame that holds it) *)
HomeOf(p) == Matchups[((p - 1) % 6) + 1][1]
AwayOf(p) == Matchups[((p - 1) % 6) + 1][2]
HomePts(p) == I(104 + ((p * 7) % 16))
AwayPts(p) == I(102 + ((p * 5) % 14))
(* days 5 and 6 of the schedule are played on the same date *)
DateOf(p) == IF p = 6 THEN 5 ELSE p
(* the sportsbook totals of the schedule, in half points *)
MarketHalves == <<449, 453, 459, 449, 453, 453, 459, 449, 463, 461, 464, 428, 457>>
MarketOf(p) == R(MarketHalves[((p - 1) % 13) + 1], 2)
Regular(p) == Row(0, DateOf(p), HomeOf(p), AwayOf(p), HomePts(p), AwayPts(p),
                  MarketOf(p))

(* the games that may be played on day p *)
Menu(p) ==
    {Regular(p)} \cup
    CASE p = 2 -> {[Regular(p) EXCEPT !.home_pts = I(131),
                                      !.total_pts = RAdd(I(131), AwayPts(p))]}
      [] p = 5 -> {[Regular(p) EXCEPT !.sportsbook_total = R(415, 2)]}
      [] p = 6 -> {[Regular(p) EXCEPT !.home = "LAL"]}
      [] p = 7 -> {[Regular(p) EXCEPT !.sportsbook_total = NotANumber]}
      [] p = 8 -> {Row(0, DateOf(p), HomeOf(p), AwayOf(p), NotANumber,
                       AwayPts(p), MarketOf(p))}
      [] p = 9 -> {Row(0, DateOf(p), HomeOf(p), AwayOf(p), I(0), I(0), MarketOf(p))}
      [] p = 10 -> {[Regular(p) EXCEPT !.away = "LAL"]}
      [] OTHER -> {}

(* DataFrame(rows): the constructor labels the rows 0 .. n-1 *)
reset_index(df) == [p \in 1..Len(df) |-> [df[p] EXCEPT !.label = p - 1]]

Reverse(s) == [p \in 1..Len(s) |-> s[Len(s) + 1 - p]]

RECURSIVE SchedulesTo(_)
SchedulesTo(n) ==
    IF n = 0 THEN {<<>>}
    ELSE {Append(s, g) : s \in SchedulesTo(n - 1), g \in Menu(n)}
Schedules == SchedulesTo(NGames)

(* the collaborator returns the log oldest first or, as the static data of *)
(* the source is written, newest first; ShortLog is a log too short for    *)
(* any step to be evaluated                                                *)
RegularSchedule == [p \in 1..NGames |-> Regular(p)]
ShortLog == SubSeq(RegularSchedule, 1, 3)
HistoricalLogs ==
    {reset_index(s) : s \in Schedules}
        \cup {reset_index(Reverse(RegularSchedule)), reset_index(ShortLog)}

----------------------------------------------------------------------------
(* src/src/process.py                                                      *)

RECURSIVE SumOver(_, _, _)
(* sum of f[p] over the positions p of the set ps *)
SumOver(ps, f, acc) ==
    IF ps = {} THEN acc
    ELSE LET p == CHOOSE q \in ps : TRUE
         IN  SumOver(ps \ {p}, f, RAdd(acc, f[p]))

(* lines 16-24: the weight column.  df.loc[cutoff_idx:, 'weight'] = 3.0    *)
(* selects by index label: the rows whose label is >= cutoff_idx.          *)
cutoff_idx(df) == Max(0, Len(df) - (Len(df) \div 3))
weight(df, recency_weight, p) ==
    IF recency_weight /\ Len(df) > 10 /\ df[p].label >= cutoff_idx(df)
    THEN 3 ELSE 1

(* the weighted mean of column col over the rows at positions ps *)
WeightedMean(df, recency_weight, ps, col) ==
    LET num == SumOver(ps, [p \in ps |->
                   RMul(df[p][col], I(weight(df, recency_weight, p)))], I(0))
        den == SumOver(ps, [p \in ps |-> I(weight(df, recency_weight, p))], I(0))
    IN  RMul(num, <<den[2], den[1]>>)

(* multiplying a non-numeric score by the weight raises TypeError *)
calculate_team_totals_raises(df) ==
    \E p \in 1..Len(df) : ~IsNum(df[p].home_pts) \/ ~IsNum(df[p].away_pts)

(* the join made inner: only the teams that played both roles get a row   *)
calculate_team_totals_inner_join(df, recency_weight) ==
    LET both == {df[p].home : p \in 1..Len(df)} \cap {df[p].away : p \in 1..Len(df)}
        hg(t) == {p \in 1..Len(df) : df[p].home = t}
        ag(t) == {p \in 1..Len(df) : df[p].away = t}
    IN  [t \in both |->
          [avg_scored_home  |-> WeightedMean(df, recency_weight, hg(t), "home_pts"),
           avg_allowed_home |-> WeightedMean(df, recency_weight, hg(t), "away_pts"),
           avg_scored_away  |-> WeightedMean(df, recency_weight, ag(t), "away_pts"),
           avg_allowed_away |-> WeightedMean(df, recency_weight, ag(t), "home_pts")]]
(* the team-indexed frame: groupby("home") and groupby("away"), joined    *)
(* outer, the columns of a role the team never played filled with 0       *)
calculate_team_totals(df, recency_weight) ==
    LET idx   == {df[p].home : p \in 1..Len(df)} \cup {df[p].away : p \in 1..Len(df)}
        hg(t) == {p \in 1..Len(df) : df[p].home = t}
        ag(t) == {p \in 1..Len(df) : df[p].away = t}
    IN  [t \in idx |->
          [avg_scored_home  |-> IF hg(t) = {} THEN I(0)
                                ELSE WeightedMean(df, recency_weight, hg(t), "home_pts"),
           avg_allowed_home |-> IF hg(t) = {} THEN I(0)
                                ELSE WeightedMean(df, recency_weight, hg(t), "away_pts"),
           avg_scored_away  |-> IF ag(t) = {} THEN I(0)
                                ELSE WeightedMean(df, recency_weight, ag(t), "away_pts"),
           avg_allowed_away |-> IF ag(t) = {} THEN I(0)
                                ELSE WeightedMean(df, recency_weight, ag(t), "home_pts")]]

----------------------------------------------------------------------------
(* The external feeds (ESPN), as the fetching code sees them.              *)

NoData == [t \in {} |-> 0]
Get(map, key, default) == IF key \in DOMAIN map THEN map[key] ELSE default

(* a scoreboard response: the request fails, or it lists finished games   *)
(* (home, away, total points), also of teams outside the log              *)
Event(home, away, total) == [home |-> home, away |-> away, total |-> total]
ScoreboardFull == << Event("BOS", "NYK", 231), Event("MIA", "PHX", 214),
                     Event("DEN", "CHI", 220), Event("PHX", "BOS", 226),
                     Event("BOS", "CHI", 221) >>
ScoreboardFails == [ok |-> FALSE, events |-> <<>>]
ScoreboardEmpty == [ok |-> TRUE,  events |-> <<>>]
ScoreboardLists == [ok |-> TRUE,  events |-> ScoreboardFull]

(* hash(team) % 9 differs from one interpreter process to the next *)
HashFlat   == [t \in Teams |-> 4]
HashSpread == [t \in Teams |-> CASE t = "BOS" -> 0 [] t = "MIA" -> 8
                                  [] t = "DEN" -> 4 [] OTHER -> 7]

(* the injury map the ESPN endpoints yield: team -> injured players (two   *)
(* stars; one star; eleven role players; one role player)                  *)
InjuriesListed == [t \in {"LAL", "BOS", "DEN", "MIA"} |->
                     CASE t = "LAL" -> <<"LeBron James", "Anthony Davis">>
                       [] t = "BOS" -> <<"Jayson Tatum">>
                       [] t = "DEN" -> [k \in 1..11 |-> "role player"]
                       [] OTHER     -> <<"Duncan Robinson">>]

(* a standings response: the request fails, or it lists win/loss records  *)
(* (others: entries of teams outside the log)                             *)
Rec(w, l) == [wins |-> w, losses |-> l]
StandingsFail == [ok |-> FALSE, others |-> 0, records |-> NoData]
StandingsList == [ok |-> TRUE, others |-> 26,
                  records |-> [t \in Teams |->
                      CASE t = "BOS" -> Rec(12, 3) [] t = "MIA" -> Rec(4, 11)
                        [] t = "DEN" -> Rec(8, 8)  [] OTHER -> Rec(0, 0)]]

(* a response that lists too few teams (5 or fewer) *)
StandingsFew == [ok |-> TRUE, others |-> 1,
                 records |-> [t \in Teams |-> Rec(12, 3)]]
(* records exactly on the two thresholds (55% and 45%), and two cold teams *)
StandingsEdge == [ok |-> TRUE, others |-> 26,
                  records |-> [t \in Teams |->
                      CASE t = "BOS" -> Rec(11, 9) [] t = "MIA" -> Rec(9, 11)
                        [] t = "DEN" -> Rec(3, 17) [] OTHER -> Rec(2, 18)]]
(* two hot teams *)
StandingsHot == [ok |-> TRUE, others |-> 26,
                 records |-> [t \in Teams |->
                     CASE t = "BOS" -> Rec(12, 3) [] t = "DEN" -> Rec(12, 8)
                       [] t = "MIA" -> Rec(10, 10) [] OTHER -> Rec(0, 0)]]

(* the states of the outside world a run may meet:                        *)
(* <<scoreboard, injuries, standings, hash offsets>>                      *)
Worlds == { <<ScoreboardFails, NoData, StandingsFail, HashFlat>>,
            <<ScoreboardFails, NoData, StandingsFail, HashSpread>>,
            <<ScoreboardEmpty, InjuriesListed, StandingsFew, HashFlat>>,
            <<ScoreboardFails, NoData, StandingsEdge, HashFlat>>,
            <<ScoreboardFails, NoData, StandingsHot, HashFlat>>,
            <<ScoreboardFails, NoData, StandingsList, HashFlat>>,
            <<ScoreboardLists, InjuriesListed, StandingsList, HashSpread>> }

----------------------------------------------------------------------------
(* src/src/advanced_stats.py                                               *)

get_fallback_pace(offset) == [t \in Teams |-> I(96 + offset[t])]

RECURSIVE PaceFromEvents(_, _)
(* lines 73-100: fold the events into the pace map *)
PaceFromEvents(events, pace_map) ==
    IF events = <<>> THEN pace_map
    ELSE LET e    == Head(events)
             pace == RAdd(I(100), R(e.total - 220, 2))
             upd(m, t) == IF t \in DOMAIN m
                          THEN [m EXCEPT ![t] = RMul(RAdd(m[t], pace), R(1, 2))]
                          ELSE [x \in DOMAIN m \cup {t} |->
                                   IF x = t THEN pace ELSE m[x]]
         IN  PaceFromEvents(Tail(events), upd(upd(pace_map, e.home), e.away))

(* line 21 *)
_PACE_CACHE_TTL == 3600

(* an in-memory cache (lines 19-20; injury.py lines 19-20): set is "is not *)
(* None", ts the module's timestamp; fetched is history, the time the map  *)
(* came over the network                                                   *)
EmptyCache == [set |-> FALSE, map |-> NoData, ts |-> 0, fetched |-> 0]
MemoryEntry(map, t, fetched) == [set |-> TRUE, map |-> map, ts |-> t, fetched |-> fetched]
(* a cache file (.cache/pace.json, .cache/injuries.json): payload ts, map *)
NoFile == [exists |-> FALSE, ts |-> 0, map |-> NoData]
FileEntry(map, t) == [exists |-> TRUE, ts |-> t, map |-> map]

(* lines 24-34: the map of the file, nothing when the file is missing or  *)
(* its ts lies more than the TTL back                                      *)
_load_pace_diskcache(file, t) ==
    IF ~file.exists THEN NoData
    ELSE IF t - file.ts > _PACE_CACHE_TTL THEN NoData
    ELSE file.map

(* lines 67-131: the scoreboard request and what is made of its answer:   *)
(* the fetched map when it has more than 5 teams, else the fallback       *)
FetchPace(scoreboard, offset) ==
    IF ~scoreboard.ok THEN get_fallback_pace(offset)
    ELSE LET pace_map == PaceFromEvents(scoreboard.events, NoData)
         IN  IF Cardinality(DOMAIN pace_map) > 5 THEN pace_map
             ELSE get_fallback_pace(offset)

(* lines 45-131 at clock t: what is returned (ret), where it came from,   *)
(* and the in-memory cache and the cache file the call leaves behind      *)
get_team_pace_from_espn(cache, file, t, scoreboard, offset) ==
    IF cache.set /\ (t - cache.ts) < _PACE_CACHE_TTL
    THEN [ret |-> cache.map, source |-> "memory", fetched |-> cache.fetched,
          cache |-> cache, file |-> file]
    ELSE LET disk == _load_pace_diskcache(file, t)
         IN  IF disk # NoData
             THEN [ret |-> disk, source |-> "disk", fetched |-> file.ts,
                   cache |-> MemoryEntry(disk, t, file.ts), file |-> file]
             ELSE LET pace_map == FetchPace(scoreboard, offset)
                  IN  [ret |-> pace_map, source |-> "network", fetched |-> t,
                       cache |-> MemoryEntry(pace_map, t, t),
                       file |-> FileEntry(pace_map, t)]

get_pace_adjusted_total(base_total, away_team, home_team, pace_map) ==
    LET home_pace == Get(pace_map, home_team, I(100))
        away_pace == Get(pace_map, away_team, I(100))
        avg_pace  == RMul(RAdd(home_pace, away_pace), R(1, 2))
    IN  RMul(RSub(avg_pace, I(100)), R(4, 10))

----------------------------------------------------------------------------
(* src/src/injury.py                                                       *)

(* line 21 *)
_INJURY_CACHE_TTL == 3600

(* lines 29-39 *)
_load_disk_cache(file, t) ==
    IF ~file.exists THEN NoData
    ELSE IF t - file.ts > _INJURY_CACHE_TTL THEN NoData
    ELSE file.map

(* lines 50-139 at clock t; injuries is what the ESPN endpoints yield     *)
(* (lines 67-129)                                                          *)
get_team_injuries(cache, file, t, injuries) ==
    IF cache.set /\ (t - cache.ts) < _INJURY_CACHE_TTL
    THEN [ret |-> cache.map, source |-> "memory", fetched |-> cache.fetched,
          cache |-> cache, file |-> file]
    ELSE LET disk == _load_disk_cache(file, t)
         IN  IF disk # NoData
             THEN [ret |-> disk, source |-> "disk", fetched |-> file.ts,
                   cache |-> MemoryEntry(disk, t, file.ts), file |-> file]
             ELSE [ret |-> injuries, source |-> "network", fetched |-> t,
                   cache |-> MemoryEntry(injuries, t, t),
                   file |-> FileEntry(injuries, t)]

SUPERSTARS == [n \in {"LeBron James", "Anthony Davis", "Jayson Tatum"} |->
                 CASE n = "LeBron James" -> 10 [] n = "Anthony Davis" -> 9
                   [] OTHER -> 8]

RECURSIVE InjuryCount(_, _, _, _)
(* lines 158-172: (superstar_total, superstar_count, role_count) *)
InjuryCount(injured, superstar_total, superstar_count, role_count) ==
    IF injured = <<>> THEN <<superstar_total, superstar_count, role_count>>
    ELSE IF Head(injured) \in DOMAIN SUPERSTARS
         THEN InjuryCount(Tail(injured), superstar_total + SUPERSTARS[Head(injured)],
                          superstar_count + 1, role_count)
         ELSE InjuryCount(Tail(injured), superstar_total, superstar_count,
                          role_count + 1)

RMin(x, y) == IF RLt(y, x) THEN y ELSE x

(* the impact without the cap of 15 *)
calculate_injury_impact_uncapped(team_name, injuries_dict) ==
    LET injured == Get(injuries_dict, team_name, <<>>)
        c       == InjuryCount(injured, 0, 0, 0)
        total   == RAdd(I(c[1]), RMul(I(c[3]), R(3, 2)))
    IN  IF injured = <<>> THEN I(0)
        ELSE IF c[2] >= 2 THEN RMul(total, R(9, 10)) ELSE total
calculate_injury_impact(team_name, injuries_dict) ==
    LET injured == Get(injuries_dict, team_name, <<>>)
        c       == InjuryCount(injured, 0, 0, 0)
        total   == RAdd(I(c[1]), RMul(I(c[3]), R(3, 2)))
        scaled  == IF c[2] >= 2 THEN RMul(total, R(9, 10)) ELSE total
    IN  IF injured = <<>> THEN I(0) ELSE RMin(scaled, I(15))

adjust_prediction_for_injuries(away_team, home_team, injuries) ==
    RNeg(RMul(RAdd(calculate_injury_impact(home_team, injuries),
                   calculate_injury_impact(away_team, injuries)), R(1, 2)))

----------------------------------------------------------------------------
(* src/src/streaks.py                                                      *)

(* the records of the response, or none when the request fails or lists   *)
(* 5 teams or fewer                                                        *)
get_team_records(standings) ==
    IF standings.ok /\ Cardinality(DOMAIN standings.records) + standings.others > 5
    THEN standings.records ELSE NoData

(* the thresholds taken inclusive: 55% counts as hot, 45% as cold *)
TeamStreak_inclusive(team, records) ==
    IF team \notin DOMAIN records THEN I(0)
    ELSE LET rec == records[team]
             total_games == rec.wins + rec.losses
         IN  IF total_games > 0 /\ ~RLt(R(rec.wins, Max(total_games, 1)), R(55, 100))
                  THEN R(3, 4)
             ELSE IF total_games > 0 /\ ~RGt(R(rec.wins, Max(total_games, 1)), R(45, 100))
                  THEN R(-3, 4)
             ELSE I(0)
TeamStreak(team, records) ==
    IF team \notin DOMAIN records THEN I(0)
    ELSE LET rec == records[team]
             total_games == rec.wins + rec.losses
         IN  IF total_games > 0 /\ RGt(R(rec.wins, Max(total_games, 1)), R(55, 100))
                  THEN R(3, 4)
             ELSE IF total_games > 0 /\ RLt(R(rec.wins, Max(total_games, 1)), R(45, 100))
                  THEN R(-3, 4)
             ELSE I(0)

calculate_streak_adjustment(home_team, away_team, records) ==
    RAdd(TeamStreak(home_team, records), TeamStreak(away_team, records))

----------------------------------------------------------------------------
(* src/src/process.py: calculate_home_court_advantage                      *)

RMax(x, y) == IF RLt(x, y) THEN y ELSE x

(* lines 52-70: per team of the statistics, 3.5 when a scoring average is *)
(* missing (pd.isna), else home minus away scoring, clamped to 0..7       *)
calculate_home_court_advantage(df) ==
    [team \in DOMAIN df |->
        IF ~IsNum(df[team].avg_scored_home) \/ ~IsNum(df[team].avg_scored_away)
        THEN R(35, 10)
        ELSE RMax(I(0), RMin(I(7), RSub(df[team].avg_scored_home,
                                        df[team].avg_scored_away)))]

----------------------------------------------------------------------------
(* src/src/model.py                                                        *)

(* lines 23-30: some game of recent_games was played the day before       *)
(* game_date by the team, and lies less than one day from game_date        *)
is_back_to_back(game_date, recent_games, team_name) ==
    \E p \in 1..Len(recent_games) :
        /\ IAbs(recent_games[p].date - game_date) < 1
        /\ recent_games[p].date = game_date - 1
        /\ team_name \in {recent_games[p].home, recent_games[p].away}

(* model_data.loc[team] raises KeyError, re-raised as ValueError *)
predict_total_raises(model_data, away_team, home_team) ==
    home_team \notin DOMAIN model_data \/ away_team \notin DOMAIN model_data

(* a statistic of 0 taken as it is *)
OrLeagueAvg_keep_zero(v) == v
(* row.get(col, 110) or 110 *)
OrLeagueAvg(v) == IF v = I(0) THEN I(110) ELSE v

(* lines 70-81 *)
BasePrediction(model_data, away_team, home_team) ==
    LET home == model_data[home_team]
        away == model_data[away_team]
        home_scored  == OrLeagueAvg(home.avg_scored_home)
        home_allowed == OrLeagueAvg(home.avg_allowed_home)
        away_scored  == OrLeagueAvg(away.avg_scored_away)
        away_allowed == OrLeagueAvg(away.avg_allowed_away)
    IN  RMul(RAdd(RAdd(home_scored, away_scored),
                  RAdd(home_allowed, away_allowed)), R(1, 2))

(* lines 84-87 *)
HcBonus(home_court_bonuses, home_team) ==
    IF home_team \in DOMAIN home_court_bonuses
    THEN home_court_bonuses[home_team] ELSE R(7, 2)

(* the multiplier applied before the bonus is added *)
ScaledPrediction_scale_first(pred, hc_bonus, total_multiplier, market_calibration) ==
    RAdd(RAdd(RMul(pred, total_multiplier), hc_bonus), market_calibration)
(* the scaled value rounded before the later stages *)
ScaledPrediction_rounded(pred, hc_bonus, total_multiplier, market_calibration) ==
    round(RAdd(RMul(RAdd(pred, hc_bonus), total_multiplier), market_calibration), 1)
(* lines 89-95: bonus, then multiplier, then calibration *)
ScaledPrediction(pred, hc_bonus, total_multiplier, market_calibration) ==
    RAdd(RMul(RAdd(pred, hc_bonus), total_multiplier), market_calibration)

(* lines 98-109 *)
B2bAdjustment(recent_games, away_team, home_team) ==
    IF Len(recent_games) > 0
    THEN LET game_date == recent_games[1].date
         IN  RAdd(IF is_back_to_back(game_date, recent_games, home_team)
                  THEN I(-1) ELSE I(0),
                  IF is_back_to_back(game_date, recent_games, away_team)
                  THEN I(-1) ELSE I(0))
    ELSE I(0)

(* lines 111-120: pace, then streak, added to the running value *)
WithPaceAndStreak(pred, away_team, home_team, pace_map, records) ==
    RAdd(RAdd(pred, get_pace_adjusted_total(pred, away_team, home_team, pace_map)),
         calculate_streak_adjustment(home_team, away_team, records))

(* pace_map and records are what get_team_pace_from_espn() and            *)
(* get_team_records() return to the calls made inside predict_total;      *)
(* home_court_bonuses = None is the empty mapping, recent_games = None    *)
(* the empty frame                                                         *)
predict_total(model_data, away_team, home_team, home_court_bonuses, total_multiplier, market_calibration, recent_games, pace_map, records) ==
    LET pred == ScaledPrediction(BasePrediction(model_data, away_team, home_team),
                                 HcBonus(home_court_bonuses, home_team),
                                 total_multiplier, market_calibration)
        b2b  == RAdd(pred, B2bAdjustment(recent_games, away_team, home_team))
    IN  round(WithPaceAndStreak(b2b, away_team, home_team, pace_map, records), 1)

(* what a call of predict_total yields when it raises (line 67): no number *)
ValueError == <<1, 0>>

(* the table with a row of zeros (no statistics) for the teams it lacks *)
WithEmptyRows(model_data, teams) ==
    [t \in DOMAIN model_data \cup teams |->
        IF t \in DOMAIN model_data THEN model_data[t]
        ELSE [avg_scored_home |-> I(0), avg_allowed_home |-> I(0),
              avg_scored_away |-> I(0), avg_allowed_away |-> I(0)]]
(* a predict_total that treats an absent team as a team without games: the *)
(* league averages stand in and a number comes back                        *)
predict_total_call_defaults(model_data, away_team, home_team, home_court_bonuses, total_multiplier, market_calibration, recent_games, pace_map, records) ==
    predict_total(WithEmptyRows(model_data, {away_team, home_team}), away_team,
                  home_team, home_court_bonuses, total_multiplier,
                  market_calibration, recent_games, pace_map, records)
(* lines 38-122, the raise of lines 63-67 included *)
predict_total_call(model_data, away_team, home_team, home_court_bonuses, total_multiplier, market_calibration, recent_games, pace_map, records) ==
    IF predict_total_raises(model_data, away_team, home_team) THEN ValueError
    ELSE predict_total(model_data, away_team, home_team, home_court_bonuses,
                       total_multiplier, market_calibration, recent_games,
                       pace_map, records)

----------------------------------------------------------------------------
(* src/src/edge.py, src/src/line_movement.py                               *)

(* the difference taken the other way round *)
calculate_edge_reversed(predicted_total, sportsbook_total) ==
    round(RSub(sportsbook_total, predicted_total), 2)
calculate_edge(predicted_total, sportsbook_total) ==
    round(RSub(predicted_total, sportsbook_total), 2)

(* a filter that already fires at a difference of exactly 12 *)
should_filter_at_threshold(predicted_total, sportsbook_total, predicted_bet) ==
    RLt(RAbs(RSub(predicted_total, sportsbook_total)), I(12))
(* TRUE: place the bet; FALSE: skip it (the filter fires) *)
should_filter_based_on_movement(predicted_total, sportsbook_total, predicted_bet) ==
    ~RGt(RAbs(RSub(predicted_total, sportsbook_total)), I(12))

----------------------------------------------------------------------------
(* src/src/backtest.py: backtest_model as a state machine.                 *)

VARIABLES
    raw_games,       \* the frame get_historical_games returned (line 98)
    all_games,       \* the frame the loop replays (line 102)
    idx,             \* loop index (line 104)
    model_data,      \* the statistics last built (line 115)
    results,         \* the outcome rows appended so far (lines 99, 161)
    trace,           \* history: the branch each index took, in order
    pc,              \* "start" (before line 102), "loop", "done" (line 176)
    espn_scoreboard, \* what the ESPN scoreboard answers
    espn_injuries,   \* what the ESPN injury endpoints yield
    espn_standings,  \* what the ESPN standings answer
    hash_offset,     \* hash(team) % 9 of this process
    odds_feed,       \* what the odds API lists: (away, home) -> total
    _PACE_CACHE,     \* advanced_stats._PACE_CACHE
    _INJURY_CACHE,   \* injury._INJURY_CACHE
    now,             \* time.time(), in seconds
    pace_json,       \* the file .cache/pace.json
    injuries_json,   \* the file .cache/injuries.json
    requests,        \* history: how often each source was asked over the network
    served,          \* the last direct call of a cached getter: what it returned
    est,             \* the last direct call of predict_total: arguments, result
    summary,         \* what summarize_backtest printed and returned
    tally            \* the totals of backtest_1000_runs.py (lines 15-18)

vars == <<raw_games, all_games, idx, model_data, results, trace, pc,
          espn_scoreboard, espn_injuries, espn_standings, hash_offset,
          odds_feed, _PACE_CACHE, _INJURY_CACHE, now, pace_json, injuries_json,
          requests, served, est, summary, tally>>

world == <<espn_scoreboard, espn_injuries, espn_standings, hash_offset, odds_feed,
           now>>
(* what the cached getters leave outside the in-memory caches *)
io == <<pace_json, injuries_json, requests, served>>

(* what the scripts that run after backtest_model keep *)
report == <<summary, tally>>

NoCall == [called |-> FALSE]
(* backtest_1000_runs.py lines 15-18 *)
NoTally == [errors |-> 0, all_results |-> 0, total_predictions |-> 0,
            total_wins |-> 0, total_losses |-> 0]
NoRequests == [pace |-> 0, injuries |-> 0, standings |-> 0]
(* one more request counted for a call that went to the network *)
Asked(call) == IF call.source = "network" THEN 1 ELSE 0
(* a process that starts without cache files, its clock read as 0 *)
FreshStart ==
    /\ _PACE_CACHE = EmptyCache /\ _INJURY_CACHE = EmptyCache
    /\ now = 0 /\ pace_json = NoFile /\ injuries_json = NoFile
    /\ requests = NoRequests /\ served = NoCall

(* the fewest training games a step needs (line 110) *)
MinTrainingGames == 4

Init ==
    /\ raw_games \in HistoricalLogs
    /\ all_games = raw_games
    /\ idx = 0
    /\ model_data = NoData
    /\ results = <<>>
    /\ trace = <<>>
    /\ pc = "start"
    /\ \E w \in Worlds :
          /\ espn_scoreboard = w[1]
          /\ espn_injuries = w[2]
          /\ espn_standings = w[3]
          /\ hash_offset = w[4]
    /\ odds_feed = NoData
    /\ FreshStart
    /\ est = NoCall /\ summary = NoCall /\ tally = NoTally

RECURSIVE SortedOrders(_, _)
(* the arrangements of the rows at positions left, ascending by date *)
SortedOrders(df, left) ==
    IF left = {} THEN {<<>>}
    ELSE LET first == {p \in left : \A q \in left : df[p].date <= df[q].date}
         IN  UNION {{<<df[p]>> \o s : s \in SortedOrders(df, left \ {p})} : p \in first}

(* the frame taken as it comes *)
sort_values_as_given(df) == {df}
(* sort_values('date') with the default quicksort: rows of one date may    *)
(* come out in any order                                                   *)
sort_values(df) == SortedOrders(df, 1..Len(df))

(* line 102 *)
SortByDate ==
    /\ pc = "start"
    /\ \E sorted \in sort_values(all_games) : all_games' = reset_index(sorted)
    /\ pc' = "loop"
    /\ UNCHANGED <<raw_games, idx, model_data, results, trace, world,
                   _PACE_CACHE, _INJURY_CACHE, io, est, report>>

(* a training window that takes in the game being predicted *)
TrainingData_through_current(games, i) == SubSeq(games, 1, i + 1)
(* line 108: all_games.iloc[:idx] *)
TrainingData(games, i) == SubSeq(games, 1, i)
(* line 105: all_games.iloc[idx] *)
CurrentGame(games, i) == games[i + 1]

(* lines 121-137: the prediction of the step, as recorded *)
StepPrediction(stats, game, pace_map, injuries, records) ==
    LET predicted == predict_total(stats, game.away, game.home, NoData,
                                   R(105, 100), I(0), <<>>, pace_map, records)
        pace_adj   == get_pace_adjusted_total(predicted, game.away, game.home, pace_map)
        injury_adj == adjust_prediction_for_injuries(game.away, game.home, injuries)
        streak_adj == calculate_streak_adjustment(game.home, game.away, records)
    IN  RAdd(RAdd(RAdd(predicted, pace_adj), injury_adj), streak_adj)

(* a classification that wins only when both point over *)
Classify_over_only(edge, predicted_over, actual_over) ==
    IF edge # I(0)
    THEN IF predicted_over /\ actual_over THEN "WIN" ELSE "LOSS"
    ELSE "PUSH"
(* lines 151-159 *)
Classify(edge, predicted_over, actual_over) ==
    IF edge # I(0)
    THEN IF (predicted_over /\ actual_over) \/ (~predicted_over /\ ~actual_over)
         THEN "WIN" ELSE "LOSS"
    ELSE "PUSH"

(* a realized total that counts as over when it equals the market total *)
ActualOver_or_equal(actual_total, sportsbook_total) ==
    ~RLt(actual_total, sportsbook_total)
(* line 147 *)
ActualOver(actual_total, sportsbook_total) == RGt(actual_total, sportsbook_total)

(* lines 139-172: the row appended for the game *)
Outcome(game, predicted, training_games) ==
    LET edge == calculate_edge(predicted, game.sportsbook_total)
        should_bet == should_filter_based_on_movement(predicted, game.sportsbook_total,
                          IF RGt(edge, I(0)) THEN "OVER" ELSE "UNDER")
        actual_total == game.total_pts
        predicted_over == RGt(predicted, game.sportsbook_total)
        actual_over == ActualOver(actual_total, game.sportsbook_total)
    IN  [date |-> game.date, home |-> game.home, away |-> game.away,
         actual_total |-> actual_total,
         sportsbook_total |-> game.sportsbook_total,
         predicted_total |-> predicted, edge |-> edge,
         bet |-> IF predicted_over THEN "OVER" ELSE "UNDER",
         result |-> Classify(edge, predicted_over, actual_over),
         training_games |-> training_games]

(* lines 139-147 raise TypeError on a market or realized total that is not *)
(* a number                                                                *)
OutcomeRaises(game) == ~IsNum(game.sportsbook_total) \/ ~IsNum(game.total_pts)

(* a handler that passes over the next index as well *)
ExceptContinue_skip_next(i) == i + 2
(* a handler that leaves the loop *)
ExceptBreak(i) == NGames
(* line 174: the handler of the per-index try: on to the next index *)
ExceptContinue(i) == i + 1

(* a threshold one game too low *)
HasMinimumHistory_one_less(training_data) ==
    ~(Len(training_data) < MinTrainingGames - 1)
(* line 110, negated: the step is not skipped *)
HasMinimumHistory(training_data) == ~(Len(training_data) < MinTrainingGames)

(* lines 110-111 *)
BelowMinimum ==
    /\ pc = "loop" /\ idx < Len(all_games)
    /\ ~HasMinimumHistory(TrainingData(all_games, idx))
    /\ idx' = idx + 1
    /\ trace' = Append(trace, "below_minimum")
    /\ UNCHANGED <<raw_games, all_games, model_data, results, pc, world,
                   _PACE_CACHE, _INJURY_CACHE, io, est, report>>

(* line 115 raises: caught at line 173 *)
AggregationRaises ==
    /\ pc = "loop" /\ idx < Len(all_games)
    /\ HasMinimumHistory(TrainingData(all_games, idx))
    /\ calculate_team_totals_raises(TrainingData(all_games, idx))
    /\ idx' = ExceptContinue(idx)
    /\ trace' = Append(trace, "raised")
    /\ UNCHANGED <<raw_games, all_games, model_data, results, pc, world,
                   _PACE_CACHE, _INJURY_CACHE, io, est, report>>

(* lines 118-119 *)
MissingTeam ==
    /\ pc = "loop" /\ idx < Len(all_games)
    /\ HasMinimumHistory(TrainingData(all_games, idx))
    /\ ~calculate_team_totals_raises(TrainingData(all_games, idx))
    /\ model_data' = calculate_team_totals(TrainingData(all_games, idx), TRUE)
    /\ predict_total_raises(model_data', CurrentGame(all_games, idx).away,
                            CurrentGame(all_games, idx).home)
    /\ idx' = idx + 1
    /\ trace' = Append(trace, "missing_team")
    /\ UNCHANGED <<raw_games, all_games, results, pc, world,
                   _PACE_CACHE, _INJURY_CACHE, io, est, report>>

(* lines 115-172 with both teams known: the signals are fetched (and      *)
(* cached), then the row is appended, or lines 139-147 raise and the       *)
(* index is skipped                                                        *)
Evaluate ==
    /\ pc = "loop" /\ idx < Len(all_games)
    /\ HasMinimumHistory(TrainingData(all_games, idx))
    /\ ~calculate_team_totals_raises(TrainingData(all_games, idx))
    /\ model_data' = calculate_team_totals(TrainingData(all_games, idx), TRUE)
    /\ LET game == CurrentGame(all_games, idx)
           \* model.py line 113, then backtest.py line 130
           pace1 == get_team_pace_from_espn(_PACE_CACHE, pace_json, now,
                                            espn_scoreboard, hash_offset)
           pace2 == get_team_pace_from_espn(pace1.cache, pace1.file, now,
                                            espn_scoreboard, hash_offset)
           inj   == get_team_injuries(_INJURY_CACHE, injuries_json, now, espn_injuries)
           pace_map == pace2.ret
           injuries == inj.ret
           \* requested at model.py line 117 and again at backtest.py line 136
           records  == get_team_records(espn_standings)
       IN  /\ ~predict_total_raises(model_data', game.away, game.home)
           /\ _PACE_CACHE' = pace2.cache
           /\ pace_json' = pace2.file
           /\ _INJURY_CACHE' = inj.cache
           /\ injuries_json' = inj.file
           /\ requests' = [pace |-> requests.pace + Asked(pace1) + Asked(pace2),
                           injuries |-> requests.injuries + Asked(inj),
                           standings |-> requests.standings + 2]
           /\ IF OutcomeRaises(game)
              THEN /\ idx' = ExceptContinue(idx)
                   /\ trace' = Append(trace, "raised")
                   /\ results' = results
              ELSE /\ idx' = idx + 1
                   /\ trace' = Append(trace, "recorded")
                   /\ results' = Append(results,
                          Outcome(game,
                                  StepPrediction(model_data', game, pace_map,
                                                 injuries, records),
                                  Len(TrainingData(all_games, idx))))
    /\ UNCHANGED <<raw_games, all_games, pc, world, served, est, report>>

(* line 176 *)
Return ==
    /\ pc = "loop" /\ idx >= Len(all_games)
    /\ pc' = "done"
    /\ UNCHANGED <<raw_games, all_games, idx, model_data, results, trace, world,
                   _PACE_CACHE, _INJURY_CACHE, io, est, report>>

(* len(results_df[results_df['result'] == res]) *)
CountResult(results_df, res) ==
    Cardinality({k \in 1..Len(results_df) : results_df[k].result = res})

RECURSIVE SumAbsEdge(_)
SumAbsEdge(results_df) ==
    IF results_df = <<>> THEN I(0)
    ELSE RAdd(RAbs(Head(results_df).edge), SumAbsEdge(Tail(results_df)))

None == [none |-> TRUE]

(* lines 179-214: the numbers the call prints and the dictionary it       *)
(* returns; nothing of either for a frame without rows (lines 183-185)    *)
summarize_backtest(results_df) ==
    IF Len(results_df) = 0
    THEN [called |-> TRUE, printed |-> None, returned |-> None]
    ELSE LET total_bets == Len(results_df) - CountResult(results_df, "PUSH")
             wins   == CountResult(results_df, "WIN")
             losses == CountResult(results_df, "LOSS")
             pushes == CountResult(results_df, "PUSH")
             win_rate == IF total_bets > 0 THEN R(wins, total_bets) ELSE I(0)
             avg_edge == RMul(SumAbsEdge(results_df), R(1, Len(results_df)))
         IN  [called |-> TRUE,
              printed |-> [counts |-> [total_games |-> Len(results_df),
                                       total_bets |-> total_bets, wins |-> wins,
                                       losses |-> losses, pushes |-> pushes],
                           win_rate |-> win_rate, avg_edge |-> avg_edge],
              returned |-> [counts |-> [total_games |-> Len(results_df),
                                        total_bets |-> total_bets, wins |-> wins,
                                        losses |-> losses],
                            win_rate |-> win_rate, avg_edge |-> avg_edge]]

(* backtest.py (the script) lines 7-13: the rows are summarized *)
Summarize ==
    /\ pc = "done"
    /\ summary' = summarize_backtest(results)
    /\ pc' = "summarized"
    /\ UNCHANGED <<raw_games, all_games, idx, model_data, results, trace, world,
                   _PACE_CACHE, _INJURY_CACHE, io, est, tally>>

(* the columns of DataFrame(results): the keys of the rows *)
Columns(df) == IF Len(df) = 0 THEN {} ELSE DOMAIN df[1]

(* backtest_1000_runs.py lines 23-43, one pass of the loop after          *)
(* backtest_model returned: line 28 raises KeyError for a frame without   *)
(* the column 'filtered', and lines 41-43 report the run as an error      *)
TallyRun ==
    /\ pc = "done"
    /\ IF "filtered" \notin Columns(results)
       THEN tally' = [tally EXCEPT !.errors = @ + 1]
       ELSE LET df_bets == SelectSeq(results, LAMBDA r : r.filtered = FALSE)
            IN  tally' = [errors |-> tally.errors,
                          all_results |-> tally.all_results + 1,
                          total_predictions |-> tally.total_predictions + Len(df_bets),
                          total_wins |-> tally.total_wins + CountResult(df_bets, "WIN"),
                          total_losses |-> tally.total_losses + CountResult(df_bets, "LOSS")]
    /\ pc' = "tallied"
    /\ UNCHANGED <<raw_games, all_games, idx, model_data, results, trace, world,
                   _PACE_CACHE, _INJURY_CACHE, io, est, summary>>

Next == SortByDate \/ BelowMinimum \/ AggregationRaises \/ MissingTeam
        \/ Evaluate \/ Return \/ Summarize \/ TallyRun

Spec == Init /\ [][Next]_vars

----------------------------------------------------------------------------
(* predict_total called directly, once, as main.py and test_model.py do,  *)
(* its arguments drawn from bounded sets.                                  *)

Stats(sh, ah, sa, aa) ==
    [avg_scored_home |-> I(sh), avg_allowed_home |-> I(ah),
     avg_scored_away |-> I(sa), avg_allowed_away |-> I(aa)]

(* the table of the specification's scenario, A = BOS and B = MIA *)
ScenarioStats == [t \in {"BOS", "MIA"} |->
                    IF t = "BOS" THEN Stats(110, 105, 100, 112)
                    ELSE Stats(108, 110, 104, 107)]

(* games that yield the scenario's table for BOS and MIA *)
ScenarioFrame ==
    reset_index(<< Row(0, 1, "BOS", "DEN", I(110), I(105), R(441, 2)),
                   Row(0, 2, "DEN", "BOS", I(112), I(100), R(441, 2)),
                   Row(0, 3, "MIA", "DEN", I(108), I(110), R(441, 2)),
                   Row(0, 4, "DEN", "MIA", I(107), I(104), R(441, 2)) >>)

(* the frames the statistics are built from: the scenario's games, a frame *)
(* of test_model.py's kind (teams without a home or without an away game), *)
(* and a longer log                                                        *)
StatFrames == { ScenarioFrame,
                reset_index(SubSeq(RegularSchedule, 1, 2)),
                reset_index(SubSeq(RegularSchedule, 1, 7)) }

BonusMaps == { NoData, [t \in {"BOS", "DEN"} |-> IF t = "BOS" THEN I(2) ELSE R(11, 2)] }
Multipliers == { I(1), R(105, 100) }
Calibrations == { I(0), R(-3, 2), R(1, 4) }
(* recent_games: none, or a frame whose first row is the game to predict  *)
(* and whose other rows are the games of the day before                    *)
RecentFrames == { <<>>, reset_index(<<Regular(3), Regular(2)>>) }

PredictCall ==
    /\ pc = "idle" /\ ~est.called
    /\ \E games \in StatFrames, mult \in Multipliers,
          calib \in Calibrations, recent \in RecentFrames :
        \E home \in Teams, away \in Teams :
        \* the bonuses: a given map, or the one computed from the statistics
        \* (optimize.py line 138)
        \E bonuses \in BonusMaps \cup
                {calculate_home_court_advantage(calculate_team_totals(games, TRUE))} :
          LET stats    == calculate_team_totals(games, TRUE)
              pace     == get_team_pace_from_espn(_PACE_CACHE, pace_json, now,
                                                  espn_scoreboard, hash_offset)
              pace_map == pace.ret
              records  == get_team_records(espn_standings)
              result   == predict_total_call(stats, away, home, bonuses, mult,
                                             calib, recent, pace_map, records)
          IN  /\ home # away
              \* the pace map is fetched (and cached) at line 112, after the raise
              /\ _PACE_CACHE' = IF result = ValueError THEN _PACE_CACHE
                                ELSE pace.cache
              /\ pace_json' = IF result = ValueError THEN pace_json ELSE pace.file
              /\ requests' = IF result = ValueError THEN requests
                             ELSE [requests EXCEPT !.pace = @ + Asked(pace),
                                                   !.standings = @ + 1]
              /\ est' = [called |-> TRUE, games |-> games, model_data |-> stats,
                         away_team |-> away, home_team |-> home,
                         home_court_bonuses |-> bonuses, total_multiplier |-> mult,
                         market_calibration |-> calib, recent_games |-> recent,
                         pace_map |-> pace_map, records |-> records,
                         result |-> result]
    /\ UNCHANGED <<raw_games, all_games, idx, model_data, results, trace, pc,
                   world, _INJURY_CACHE, injuries_json, served, report>>

InitEst ==
    /\ raw_games = <<>> /\ all_games = <<>> /\ idx = 0 /\ model_data = NoData
    /\ results = <<>> /\ trace = <<>> /\ pc = "idle"
    /\ \E w \in Worlds :
          /\ espn_scoreboard = w[1]
          /\ espn_injuries = w[2]
          /\ espn_standings = w[3]
          /\ hash_offset = w[4]
    /\ odds_feed = NoData
    /\ FreshStart
    /\ est = NoCall /\ summary = NoCall /\ tally = NoTally

NextEst == PredictCall

SpecEst == InitEst /\ [][NextEst]_vars

----------------------------------------------------------------------------
(* src/schedule_predictions.py: run_predictions as a state machine.        *)
(* pc: "live_start" (before line 44), "live_loop" (line 79), "live_done".  *)

(* a row of the frame get_games returns (no sportsbook column) *)
LiveGame(home, away, home_pts, away_pts) ==
    Row(0, 1, home, away, I(home_pts), I(away_pts), NotANumber)

(* three finished games *)
LiveShort == << LiveGame("BOS", "MIA", 104, 96), LiveGame("BOS", "DEN", 110, 98),
                LiveGame("BOS", "LAL", 106, 102) >>
(* a full day of twelve games, all finished *)
LiveFull == [p \in 1..12 |->
               LiveGame(HomeOf(p), AwayOf(p), 104 + ((p * 7) % 16), 102 + ((p * 5) % 14))]
(* the frames get_games may return: none (the request failed), finished    *)
(* games only, games not yet played (0 : 0) among them, none played yet    *)
LiveFrames ==
    { <<>>,
      reset_index(LiveShort),
      reset_index([LiveShort EXCEPT ![2] = LiveGame("DEN", "MIA", 0, 0)]),
      reset_index(LiveFull),
      reset_index([LiveFull EXCEPT ![1] = LiveGame("BOS", "MIA", 0, 0)]),
      reset_index([LiveFull EXCEPT ![10] = LiveGame("MIA", "BOS", 0, 0)]),
      reset_index(<< LiveGame("BOS", "MIA", 0, 0), LiveGame("DEN", "LAL", 0, 0) >>) }

(* what the odds API lists *)
OddsFor(away, home, total) == [k \in {<<away, home>>} |-> total]
OddsFeeds == { NoData, OddsFor("MIA", "BOS", I(229)), OddsFor("MIA", "BOS", R(457, 2)),
               OddsFor("MIA", "BOS", R(409, 2)), OddsFor("MIA", "BOS", I(204)) }

InitLive ==
    /\ raw_games \in LiveFrames
    /\ all_games = <<>> /\ idx = 0 /\ model_data = NoData
    /\ results = <<>> /\ trace = <<>> /\ pc = "live_start"
    /\ \E w \in Worlds :
          /\ espn_scoreboard = w[1]
          /\ espn_injuries = w[2]
          /\ espn_standings = w[3]
          /\ hash_offset = w[4]
    /\ odds_feed \in OddsFeeds
    /\ FreshStart
    /\ est = NoCall /\ summary = NoCall /\ tally = NoTally

(* line 63: df[df['total_pts'] > 0]; the rows keep their labels *)
Completed(df) == SelectSeq(df, LAMBDA r : RGt(r.total_pts, I(0)))

(* lines 44-49: no games *)
LiveNoGames ==
    /\ pc = "live_start" /\ Len(raw_games) = 0
    /\ pc' = "live_done"
    /\ UNCHANGED <<raw_games, all_games, idx, model_data, results, trace, world,
                   _PACE_CACHE, _INJURY_CACHE, io, est, report>>

(* lines 62-70: no finished game yet *)
LiveNoneCompleted ==
    /\ pc = "live_start" /\ Len(raw_games) > 0 /\ Completed(raw_games) = <<>>
    /\ pc' = "live_done"
    /\ UNCHANGED <<raw_games, all_games, idx, model_data, results, trace, world,
                   _PACE_CACHE, _INJURY_CACHE, io, est, report>>

(* lines 62-78: the statistics of the finished games *)
LiveBuildModel ==
    /\ pc = "live_start" /\ Len(raw_games) > 0 /\ Completed(raw_games) # <<>>
    /\ all_games' = Completed(raw_games)
    /\ model_data' = calculate_team_totals(all_games', TRUE)
    /\ pc' = "live_loop"
    /\ UNCHANGED <<raw_games, idx, results, trace, world,
                   _PACE_CACHE, _INJURY_CACHE, io, est, report>>

(* lines 118-120 *)
LiveBet(edge, should_bet) ==
    IF ~should_bet THEN "FILTERED"
    ELSE IF RGt(edge, I(0)) THEN "OVER"
    ELSE IF RLt(edge, I(0)) THEN "UNDER" ELSE "PASS"

(* lines 84-130: the prediction appended for a row *)
LivePredictionRow(row, predicted) ==
    LET sportsbook == Get(odds_feed, <<row.away, row.home>>, I(220))
        edge == calculate_edge(predicted, sportsbook)
        should_bet == should_filter_based_on_movement(predicted, sportsbook,
                          IF RGt(edge, I(0)) THEN "OVER" ELSE "UNDER")
    IN  [home |-> row.home, away |-> row.away, predicted |-> predicted,
         sportsbook |-> sportsbook, edge |-> edge, bet |-> LiveBet(edge, should_bet)]

(* lines 79-138: one pass of the loop; trace keeps the adjustments the     *)
(* pass logged (lines 98, 104, 110)                                        *)
LivePredict ==
    /\ pc = "live_loop" /\ idx < Len(all_games)
    /\ LET row == CurrentGame(all_games, idx)
           \* model.py line 113, then schedule_predictions.py line 95
           pace1 == get_team_pace_from_espn(_PACE_CACHE, pace_json, now,
                                            espn_scoreboard, hash_offset)
           pace2 == get_team_pace_from_espn(pace1.cache, pace1.file, now,
                                            espn_scoreboard, hash_offset)
           inj   == get_team_injuries(_INJURY_CACHE, injuries_json, now, espn_injuries)
           pace_map == pace2.ret
           injuries == inj.ret
           \* requested at model.py line 117 and again at line 107
           records  == get_team_records(espn_standings)
       IN  /\ _PACE_CACHE' = pace2.cache
           /\ pace_json' = pace2.file
           /\ _INJURY_CACHE' = inj.cache
           /\ injuries_json' = inj.file
           /\ requests' = [pace |-> requests.pace + Asked(pace1) + Asked(pace2),
                           injuries |-> requests.injuries + Asked(inj),
                           standings |-> requests.standings + 2]
           /\ results' = Append(results, LivePredictionRow(row,
                              StepPrediction(model_data, row, pace_map, injuries, records)))
           /\ trace' = Append(trace,
                  [pace_adj   |-> get_pace_adjusted_total(I(0), row.away, row.home, pace_map),
                   injury_adj |-> adjust_prediction_for_injuries(row.away, row.home, injuries),
                   streak_adj |-> calculate_streak_adjustment(row.home, row.away, records)])
    /\ idx' = idx + 1
    /\ UNCHANGED <<raw_games, all_games, model_data, pc, world, served, est, report>>

(* line 144 *)
LiveReturn ==
    /\ pc = "live_loop" /\ idx >= Len(all_games)
    /\ pc' = "live_done"
    /\ UNCHANGED <<raw_games, all_games, idx, model_data, results, trace, world,
                   _PACE_CACHE, _INJURY_CACHE, io, est, report>>

NextLive == LiveNoGames \/ LiveNoneCompleted \/ LiveBuildModel \/ LivePredict
            \/ LiveReturn

SpecLive == InitLive /\ [][NextLive]_vars

----------------------------------------------------------------------------
(* Both entry points: a process runs the backtest or calls predict_total.  *)

InitAll == Init \/ InitEst
NextAll == Next \/ NextEst
SpecAll == InitAll /\ [][NextAll]_vars

----------------------------------------------------------------------------
(* Properties of backtest_model (specification Spec).                      *)

(* the index the loop handled last, and the branch it took there *)
LastIndex == idx - 1
LastBranch == IF trace = <<>> THEN "none" ELSE trace[Len(trace)]

(* other games that could stand at a position of the log: other scores,   *)
(* other teams, another market total                                       *)
OtherGames == { Row(0, 0, "LAL", "MIA", I(140), I(91), R(401, 2)),
                Row(0, 0, "DEN", "BOS", I(99), I(127), R(480, 2)) }
(* the log with the game at position j (counted from 1) changed to g, its *)
(* date and label kept                                                     *)
Changed(games, j, g) ==
    [games EXCEPT ![j] = [g EXCEPT !.label = games[j].label, !.date = games[j].date]]

Rows == {results[k] : k \in 1..Len(results)}
(* the game a row was recorded for *)
GameOfRow(r) == CurrentGame(all_games, r.training_games)
RowsOfIndex(i) == {r \in Rows : r.training_games = i}

(* C2: no index with fewer than 4 training games records an outcome or    *)
(* raises: indices 0..3 all take the skip branch; every recorded row has  *)
(* training_games >= 4, and training_games is the index of its game.      *)
C2_MinimumHistory ==
    /\ \A k \in 1..Len(trace) : (k - 1 < 4) => trace[k] = "below_minimum"
    /\ \A r \in Rows :
          /\ r.training_games >= 4
          /\ r.training_games < Len(trace)
          /\ trace[r.training_games + 1] = "recorded"
          /\ r.home = GameOfRow(r).home /\ r.away = GameOfRow(r).away
          /\ r.date = GameOfRow(r).date
          /\ r.sportsbook_total = GameOfRow(r).sportsbook_total

(* indices 0..3 were skipped and index 4 recorded an outcome *)
C2_Witness ==
    /\ Len(trace) > 4 /\ trace[4] = "below_minimum"
    /\ \E r \in Rows : r.training_games = 4

CountOf(branch) == Cardinality({k \in 1..Len(trace) : trace[k] = branch})

(* C3: an exception inside the step of one index skips that index alone:  *)
(* the index gets no row, the rows already recorded stay as they are, the *)
(* loop moves on to the next index, and the run goes on until every index *)
(* has been handled: each step of the loop handles the next index or,     *)
(* past the last one, returns.                                             *)
C3_State ==
    /\ Len(trace) = idx
    /\ Len(results) = CountOf("recorded")
    /\ \A k \in 1..Len(trace) :
          /\ trace[k] = "raised" => RowsOfIndex(k - 1) = {}
          /\ trace[k] = "recorded" => Cardinality(RowsOfIndex(k - 1)) = 1
    /\ pc = "done" => idx = Len(all_games)
C3_Step ==
    /\ (trace' # trace /\ trace'[Len(trace')] = "raised") =>
          (results' = results /\ idx' = idx + 1 /\ pc' = pc)
    /\ \A k \in 1..Len(results) : Len(results') >= k /\ results'[k] = results[k]
    /\ pc = "loop" =>
          \/ idx < Len(all_games) /\ idx' = idx + 1 /\ pc' = "loop"
          \/ idx = Len(all_games) /\ pc' = "done"
(* C3: in every state the skipped indices have no row and the run is in   *)
(* step with the log (C3_State), and every step keeps the recorded rows   *)
(* and moves on to the next index (C3_Step).                               *)
C3_SkipOnException == []C3_State /\ [][C3_Step]_vars

(* the run is over; an index raised, and a later index recorded a row *)
C3_Witness ==
    /\ pc = "done"
    /\ \E k \in 1..Len(trace) : \E m \in (k + 1)..Len(trace) :
          trace[k] = "raised" /\ trace[m] = "recorded"

IsSortedByDate(df) == \A p \in 1..Len(df) : \A q \in p..Len(df) : df[p].date <= df[q].date
MalformedScore(df) ==
    \E p \in 1..Len(df) : ~IsNum(df[p].home_pts) \/ ~IsNum(df[p].away_pts)
Unlabelled(r) == [r EXCEPT !.label = 0]
(* the same rows, each as often *)
SameRows(a, b) ==
    /\ Len(a) = Len(b)
    /\ \A p \in 1..Len(a) :
          Cardinality({q \in 1..Len(a) : Unlabelled(a[q]) = Unlabelled(a[p])})
          = Cardinality({q \in 1..Len(b) : Unlabelled(b[q]) = Unlabelled(a[p])})

StatsOfRow(r) == calculate_team_totals(TrainingData(all_games, r.training_games), TRUE)
(* the estimate before any signal: base, bonus 3.5, multiplier 1.05 *)
EstimateOfRow(r) ==
    ScaledPrediction(BasePrediction(StatsOfRow(r), r.away, r.home),
                     R(7, 2), R(105, 100), I(0))
PaceOfRow(r) == get_pace_adjusted_total(I(0), r.away, r.home, _PACE_CACHE.map)
InjuryOfRow(r) == adjust_prediction_for_injuries(r.away, r.home, _INJURY_CACHE.map)
StreakOfRow(r) ==
    calculate_streak_adjustment(r.home, r.away, get_team_records(espn_standings))
Within(x, y, tol) == ~RGt(RAbs(RSub(x, y)), tol)

(* C5 as claimed: every recorded prediction holds each of the pace,       *)
(* injury and streak adjustments exactly once: it is the estimate plus    *)
(* one pace, one injury and one streak adjustment, up to the rounding to  *)
(* one decimal (0.05).                                                     *)
C5_EachAdjustmentOnce ==
    \A r \in Rows :
        Within(r.predicted_total,
               RAdd(RAdd(RAdd(EstimateOfRow(r), PaceOfRow(r)), InjuryOfRow(r)),
                    StreakOfRow(r)),
               R(1, 20))

FilterFires(r) == RGt(RAbs(RSub(r.predicted_total, r.sportsbook_total)), I(12))

(* C6 as claimed: a row whose prediction is more than 12 points from the  *)
(* market is recorded as FILTERED, never as WIN or LOSS.                   *)
C6_FilteredOverrides ==
    \A r \in Rows : FilterFires(r) => r.result = "FILTERED"

(* C7: a row is PUSH exactly when its edge is 0; otherwise it is WIN when *)
(* (predicted > market) = (actual > market) and LOSS when they differ.    *)
C7_Classification ==
    \A r \in Rows :
        LET same == RGt(r.predicted_total, r.sportsbook_total)
                    <=> RGt(r.actual_total, r.sportsbook_total)
        IN  /\ r.result = "PUSH" <=> r.edge = I(0)
            /\ r.edge # I(0) => (r.result = "WIN" <=> same)
            /\ r.edge # I(0) => (r.result = "LOSS" <=> ~same)
            /\ r.edge = round(RSub(r.predicted_total, r.sportsbook_total), 2)

(* rows of all three kinds were recorded, among them a win on the under   *)
C7_Witness ==
    /\ \E r \in Rows : r.result = "PUSH"
    /\ \E r \in Rows : r.result = "LOSS"
    /\ \E r \in Rows : r.result = "WIN" /\ r.bet = "UNDER"
    /\ \E r \in Rows : r.result = "WIN" /\ r.bet = "OVER"

(* C10 as claimed: the recorded prediction is the sum of everything the   *)
(* step added (estimate; pace and streak inside predict_total; pace,      *)
(* injury and streak after it), rounded to one decimal once, at the end.  *)
C10_RoundedOnceAtEnd ==
    \A r \in Rows :
        r.predicted_total =
            round(RAdd(RAdd(RAdd(RAdd(RAdd(EstimateOfRow(r), PaceOfRow(r)),
                                      StreakOfRow(r)),
                                 PaceOfRow(r)), InjuryOfRow(r)), StreakOfRow(r)), 1)

----------------------------------------------------------------------------
(* Properties of predict_total (specification SpecEst).                    *)

(* the four statistics of the call's matchup, 110 standing in for a       *)
(* statistic of 0 (a role the team never played)                           *)
(* the call returned a number *)
EstReturned == est.called /\ est.result # ValueError

EstFourStats ==
    LET h == est.model_data[est.home_team]
        a == est.model_data[est.away_team]
        s(v) == IF v = I(0) THEN I(110) ELSE v
    IN  RAdd(RAdd(s(h.avg_scored_home), s(a.avg_scored_away)),
             RAdd(s(h.avg_allowed_home), s(a.avg_allowed_away)))
EstBonus ==
    IF est.home_team \in DOMAIN est.home_court_bonuses
    THEN est.home_court_bonuses[est.home_team] ELSE R(35, 10)
(* (four statistics / 2 + bonus) * multiplier + calibration *)
EstCore ==
    RAdd(RMul(RAdd(RMul(EstFourStats, R(1, 2)), EstBonus), est.total_multiplier),
         est.market_calibration)
EstB2b == B2bAdjustment(est.recent_games, est.away_team, est.home_team)
EstPace == get_pace_adjusted_total(I(0), est.away_team, est.home_team, est.pace_map)
EstStreak == calculate_streak_adjustment(est.home_team, est.away_team, est.records)
EstUnrounded == RAdd(RAdd(RAdd(EstCore, EstB2b), EstPace), EstStreak)
(* the scenario of the specification: A (BOS) home, B (MIA) away, bonus   *)
(* 3.5, multiplier 1.0, no calibration, no recent games                    *)
EstIsScenario ==
    /\ est.called /\ est.games = ScenarioFrame
    /\ est.model_data["BOS"] = ScenarioStats["BOS"]
    /\ est.model_data["MIA"] = ScenarioStats["MIA"]
    /\ est.home_team = "BOS" /\ est.away_team = "MIA"
    /\ est.home_court_bonuses = NoData /\ est.total_multiplier = I(1)
    /\ est.market_calibration = I(0) /\ est.recent_games = <<>>

(* C8 as claimed: predict_total returns (four statistics / 2 + bonus) *   *)
(* multiplier + calibration (to one decimal), and 216.5 for the scenario. *)
C8_CoreFormulaOnly ==
    /\ EstReturned => est.result = round(EstCore, 1)
    /\ EstIsScenario => est.result = R(2165, 10)

(* C8 as amended: predict_total returns (four statistics / 2 + bonus) *   *)
(* multiplier + calibration, the bonus added before scaling and the       *)
(* calibration after, plus the back-to-back, pace and streak adjustments  *)
(* it applies itself, rounded to one decimal; for the scenario it returns *)
(* 216.5 plus the pace and streak adjustments of the two teams, and 216.5 *)
(* when both are zero.                                                     *)
C8_CorePlusOwnAdjustments ==
    /\ EstReturned => est.result = round(EstUnrounded, 1)
    /\ EstIsScenario =>
          est.result = round(RAdd(RAdd(R(2165, 10), EstPace), EstStreak), 1)
    /\ (EstIsScenario /\ EstPace = I(0) /\ EstStreak = I(0)) =>
          est.result = R(2165, 10)

(* the scenario was computed with no pace and no streak adjustment, and   *)
(* came out as 216.5                                                       *)
C8_Witness ==
    EstIsScenario /\ EstPace = I(0) /\ EstStreak = I(0) /\ est.result = R(2165, 10)

(* C9: predict_total rounds once, at the end: its result is a value with  *)
(* one decimal, and it is the one-decimal value nearest to the unrounded  *)
(* sum of all the stages (within 0.05 of it).                              *)
C9_RoundsOnceLast ==
    EstReturned =>
        /\ RMul(est.result, I(10))[2] = 1
        /\ Within(est.result, EstUnrounded, R(1, 20))

(* a call with a multiplier, a calibration, a pace and a streak           *)
(* adjustment, where rounding changed the value                            *)
C9_Witness ==
    /\ EstReturned /\ est.total_multiplier # I(1) /\ est.market_calibration # I(0)
    /\ EstPace # I(0) /\ EstStreak # I(0)
    /\ est.result # EstUnrounded

----------------------------------------------------------------------------
(* Properties of both entry points (specification SpecAll).                *)

TeamsOf(df) == {df[p].home : p \in 1..Len(df)} \cup {df[p].away : p \in 1..Len(df)}
EstTeamAbsent ==
    est.home_team \notin TeamsOf(est.games) \/ est.away_team \notin TeamsOf(est.games)

(* C11: predict_total yields no number (it raises) exactly when the home   *)
(* or the away team has no row in the statistics, and never a number built *)
(* from default statistics; in backtest_model a game one of whose teams    *)
(* played no game of the training prefix gets no outcome row.              *)
C11_TeamNotFound ==
    /\ est.called => (est.result = ValueError <=> EstTeamAbsent)
    /\ \A k \in 1..Len(trace) :
          LET game == CurrentGame(all_games, k - 1)
              seen == TeamsOf(TrainingData(all_games, k - 1))
          IN  (game.home \notin seen \/ game.away \notin seen)
                  => RowsOfIndex(k - 1) = {}

(* predict_total was called for a known home team and an away team that   *)
(* has no row, and raised                                                  *)
C11_Witness ==
    /\ est.called /\ est.result = ValueError
    /\ est.home_team \in TeamsOf(est.games)
    /\ est.away_team \notin TeamsOf(est.games)

----------------------------------------------------------------------------
(* More properties of predict_total (specification SpecEst).               *)

EstHomeRoleMissing ==
    \A p \in 1..Len(est.games) : est.games[p].home # est.home_team
EstAwayRoleMissing ==
    \A p \in 1..Len(est.games) : est.games[p].away # est.away_team

(* C12: for two teams that both have a row, predict_total returns a number; *)
(* a home team without home games counts as 110 scored and 110 allowed,    *)
(* an away team without away games likewise.                               *)
C12_LeagueAverageFallback ==
    (est.called /\ ~EstTeamAbsent) =>
        LET h == est.model_data[est.home_team]
            a == est.model_data[est.away_team]
            H == IF EstHomeRoleMissing THEN I(220)
                 ELSE RAdd(h.avg_scored_home, h.avg_allowed_home)
            A == IF EstAwayRoleMissing THEN I(220)
                 ELSE RAdd(a.avg_scored_away, a.avg_allowed_away)
            core == RAdd(RMul(RAdd(RMul(RAdd(H, A), R(1, 2)), EstBonus),
                              est.total_multiplier), est.market_calibration)
        IN  /\ est.result # ValueError
            /\ est.result = round(RAdd(RAdd(RAdd(core, EstB2b), EstPace), EstStreak), 1)

(* a home team that never played at home met an away team that never      *)
(* played away, and a number came back                                     *)
C12_Witness ==
    /\ est.called /\ ~EstTeamAbsent /\ est.result # ValueError
    /\ EstHomeRoleMissing /\ EstAwayRoleMissing

----------------------------------------------------------------------------
(* Properties of calculate_team_totals as backtest_model calls it          *)
(* (specification Spec).                                                   *)

(* the statistics in model_data are those of the last index's prefix *)
StatsAreCurrent == pc # "start" /\ LastBranch \in {"recorded", "missing_team"}
Prefix == TrainingData(all_games, LastIndex)
HomeGamesOf(df, t) == {p \in 1..Len(df) : df[p].home = t}
AwayGamesOf(df, t) == {p \in 1..Len(df) : df[p].away = t}

Unplayed(game) == game.home_pts = I(0) /\ game.away_pts = I(0)
PlayedOnly(df) == SelectSeq(df, LAMBDA r : ~Unplayed(r))

----------------------------------------------------------------------------
(* Properties of run_predictions (specification SpecLive).                 *)

LiveModelBuilt == pc \in {"live_loop", "live_done"} /\ all_games # <<>>

(* the weight of the game at position p (counted from 1) by the rule of    *)
(* the claim: the last n \div 3 positions of more than 10 games weigh 3    *)
PositionWeight(df, p) ==
    IF Len(df) > 10 /\ p - 1 >= Max(0, Len(df) - (Len(df) \div 3)) THEN 3 ELSE 1
PositionMean(df, ps, col) ==
    LET num == SumOver(ps, [p \in ps |-> RMul(df[p][col], I(PositionWeight(df, p)))], I(0))
        den == SumOver(ps, [p \in ps |-> I(PositionWeight(df, p))], I(0))
    IN  RMul(num, <<den[2], den[1]>>)

(* C14 as claimed: every statistic is the weighted mean of the team's      *)
(* games in the role, the weights given by the position of the game in the *)
(* input (3 for the last n \div 3 of more than 10 games, else 1), whatever  *)
(* labels the rows carry.                                                  *)
C14_WeightsByPosition ==
    LiveModelBuilt =>
        \A t \in DOMAIN model_data :
            /\ HomeGamesOf(all_games, t) # {} =>
                  /\ model_data[t].avg_scored_home
                       = PositionMean(all_games, HomeGamesOf(all_games, t), "home_pts")
                  /\ model_data[t].avg_allowed_home
                       = PositionMean(all_games, HomeGamesOf(all_games, t), "away_pts")
            /\ AwayGamesOf(all_games, t) # {} =>
                  /\ model_data[t].avg_scored_away
                       = PositionMean(all_games, AwayGamesOf(all_games, t), "away_pts")
                  /\ model_data[t].avg_allowed_away
                       = PositionMean(all_games, AwayGamesOf(all_games, t), "home_pts")

LiveDifference(r) == RSub(r.predicted, r.sportsbook)

(* C16: the edge of every prediction is predicted - sportsbook rounded to  *)
(* two decimals (a value with two decimals, within 0.005 of the            *)
(* difference); a positive edge comes with predicted > sportsbook, a       *)
(* negative one with predicted < sportsbook.                               *)
C16_EdgeSign ==
    \A r \in Rows :
        /\ RMul(r.edge, I(100))[2] = 1
        /\ Within(r.edge, LiveDifference(r), R(1, 200))
        /\ RGt(r.edge, I(0)) => RGt(r.predicted, r.sportsbook)
        /\ RLt(r.edge, I(0)) => RLt(r.predicted, r.sportsbook)

(* predictions above and below the line were made, one of them with a      *)
(* difference that rounding to two decimals changed                        *)
C16_Witness ==
    /\ \E r \in Rows : RGt(r.edge, I(0))
    /\ \E r \in Rows : RLt(r.edge, I(0))
    /\ \E r \in Rows : r.edge # LiveDifference(r)

(* C17: a prediction is filtered exactly when it lies more than 12 points  *)
(* from the line, on either side; at exactly 12 points it is not; 216.5    *)
(* against a line of 229.0 is filtered.                                    *)
C17_FilterThreshold ==
    \A r \in Rows :
        /\ r.bet = "FILTERED" <=> RGt(RAbs(LiveDifference(r)), I(12))
        /\ RAbs(LiveDifference(r)) = I(12) => r.bet \in {"OVER", "UNDER"}
        /\ (r.predicted = R(2165, 10) /\ r.sportsbook = I(229)) => r.bet = "FILTERED"

(* 216.5 against a line of 229.0 was filtered *)
C17_Witness ==
    \E r \in Rows : r.predicted = R(2165, 10) /\ r.sportsbook = I(229)
                     /\ r.bet = "FILTERED"

(* a prediction more than 12 points above its line was filtered *)
C17_AboveLine ==
    \E r \in Rows : RGt(LiveDifference(r), I(12)) /\ r.bet = "FILTERED"

(* a prediction exactly 12 points from its line was made and kept *)
C17_AtThreshold ==
    \E r \in Rows : RAbs(LiveDifference(r)) = I(12) /\ r.bet # "FILTERED"

----------------------------------------------------------------------------
(* Properties of the three signals as run_predictions applies them         *)
(* (specification SpecLive).                                               *)

Passes == 1..Len(trace)
InRange(x, lo, hi) == ~RLt(x, lo) /\ ~RGt(x, hi)

(* C18: the injury impact of every team is between 0 and 15, and every     *)
(* injury adjustment applied is between -15 and 0.                         *)
C18_InjuryCap ==
    /\ _INJURY_CACHE.set =>
          \A t \in Teams :
              InRange(calculate_injury_impact(t, _INJURY_CACHE.map), I(0), I(15))
    /\ \A k \in Passes : InRange(trace[k].injury_adj, I(-15), I(0))

(* a game of a team whose injuries exceed the cap (two stars out: 17.1) was *)
(* predicted: the adjustment is -(8 + 15) / 2                               *)
C18_Witness ==
    \E k \in Passes : trace[k].injury_adj = R(-23, 2)

(* the external data of a signal is unavailable: the request fails or      *)
(* yields too little                                                       *)
PaceUnavailable ==
    \/ ~espn_scoreboard.ok
    \/ Cardinality(UNION {{espn_scoreboard.events[p].home, espn_scoreboard.events[p].away} :
                              p \in 1..Len(espn_scoreboard.events)}) <= 5
InjuriesUnavailable == espn_injuries = NoData
StandingsUnavailable ==
    ~espn_standings.ok
    \/ Cardinality(DOMAIN espn_standings.records) + espn_standings.others <= 5

(* C19 as claimed: a signal whose external data is unavailable contributes *)
(* exactly 0.                                                              *)
C19_SignalsDegradeToZero ==
    \A k \in Passes :
        /\ PaceUnavailable => trace[k].pace_adj = I(0)
        /\ InjuriesUnavailable => trace[k].injury_adj = I(0)
        /\ StandingsUnavailable => trace[k].streak_adj = I(0)

(* the streak value of a team by the rule of the claim, in whole numbers:  *)
(* hot above 55 wins in 100, cold below 45                                 *)
ClaimedStreak(t) ==
    LET known == get_team_records(espn_standings)
    IN  IF t \notin DOMAIN known THEN I(0)
        ELSE LET w == known[t].wins
                 g == known[t].wins + known[t].losses
             IN  IF g = 0 THEN I(0)
                 ELSE IF 100 * w > 55 * g THEN R(3, 4)
                 ELSE IF 100 * w < 45 * g THEN R(-3, 4)
                 ELSE I(0)

C20_BothHot ==
    \E k \in Passes : trace[k].streak_adj = R(3, 2)

----------------------------------------------------------------------------
(* The cached getters called directly while the clock runs: a process     *)
(* that starts with or without cache files an earlier process wrote.      *)
(* pc: "cache".                                                            *)

(* the clock is read in steps of TickSeconds, up to MaxClock *)
TickSeconds == 1200
MaxClock == 7200

InitCache ==
    /\ raw_games = <<>> /\ all_games = <<>> /\ idx = 0 /\ model_data = NoData
    /\ results = <<>> /\ trace = <<>> /\ pc = "cache"
    /\ \E w \in Worlds :
          /\ espn_scoreboard = w[1]
          /\ espn_injuries = w[2]
          /\ espn_standings = w[3]
          /\ hash_offset = w[4]
    /\ odds_feed = NoData
    /\ _PACE_CACHE = EmptyCache /\ _INJURY_CACHE = EmptyCache
    /\ now = 0
    /\ pace_json \in {NoFile, FileEntry(get_fallback_pace(HashFlat), 0)}
    /\ injuries_json \in {NoFile, FileEntry(InjuriesListed, 0)}
    /\ requests = NoRequests /\ served = NoCall /\ est = NoCall /\ summary = NoCall /\ tally = NoTally

(* time.time() moves on between two calls *)
Tick ==
    /\ pc = "cache" /\ now + TickSeconds <= MaxClock
    /\ now' = now + TickSeconds
    /\ UNCHANGED <<raw_games, all_games, idx, model_data, results, trace, pc,
                   espn_scoreboard, espn_injuries, espn_standings, hash_offset,
                   odds_feed, _PACE_CACHE, _INJURY_CACHE, io, est, report>>

Served(getter, call) ==
    [called |-> TRUE, getter |-> getter, ret |-> call.ret, source |-> call.source,
     fetched |-> call.fetched, at |-> now]

(* advanced_stats.get_team_pace_from_espn() *)
CallPace ==
    /\ pc = "cache"
    /\ LET call == get_team_pace_from_espn(_PACE_CACHE, pace_json, now,
                                           espn_scoreboard, hash_offset)
       IN  /\ _PACE_CACHE' = call.cache
           /\ pace_json' = call.file
           /\ requests' = [requests EXCEPT !.pace = @ + Asked(call)]
           /\ served' = Served("pace", call)
    /\ UNCHANGED <<raw_games, all_games, idx, model_data, results, trace, pc,
                   world, _INJURY_CACHE, injuries_json, est, report>>

(* injury.get_team_injuries() *)
CallInjuries ==
    /\ pc = "cache"
    /\ LET call == get_team_injuries(_INJURY_CACHE, injuries_json, now, espn_injuries)
       IN  /\ _INJURY_CACHE' = call.cache
           /\ injuries_json' = call.file
           /\ requests' = [requests EXCEPT !.injuries = @ + Asked(call)]
           /\ served' = Served("injuries", call)
    /\ UNCHANGED <<raw_games, all_games, idx, model_data, results, trace, pc,
                   world, _PACE_CACHE, pace_json, est, report>>

NextCache == Tick \/ CallPace \/ CallInjuries

SpecCache == InitCache /\ [][NextCache]_vars

----------------------------------------------------------------------------
(* C21: during one backtest_model run each external source (pace map,     *)
(* injury map, team records) is asked over the network at most once,      *)
(* however many games are evaluated.                                       *)
C21_EachSourceOnce ==
    /\ requests.pace <= 1
    /\ requests.injuries <= 1
    /\ requests.standings <= 1

(* the two sources that are cached are asked once in a run *)
C21_CachedSourcesOnce == requests.pace <= 1 /\ requests.injuries <= 1
(* a finished run that evaluated several games and asked pace once *)
C21_SeveralEvaluated ==
    /\ pc = "done" /\ Len(results) >= 2
    /\ requests.pace = 1 /\ requests.injuries = 1
    /\ requests.standings >= 2 * Len(results)

(* C26: get_team_injuries and get_team_pace_from_espn never return data   *)
(* that was fetched more than the TTL (3600 seconds) earlier, whether the  *)
(* data are held in memory or were loaded from the disk cache.             *)
C26_NeverOlderThanTTL ==
    served.called => served.at - served.fetched <= 3600

(* a return from the in-memory cache younger than the TTL, and one that   *)
(* went to the network after the TTL                                       *)
C26_FreshFromMemory ==
    served.called /\ served.source = "memory" /\ served.at - served.fetched < 3600
C26_Refetched ==
    served.called /\ served.source = "network" /\ served.at >= 3600
    /\ requests.pace + requests.injuries >= 2

(* C22: when a backtest run finishes, its summary reports how many steps  *)
(* were skipped and how many were evaluated, the two adding up to the     *)
(* number of games in the log; also when every step was skipped.          *)
Skipped == Len(all_games) - Len(results)
C22_SummaryCounts ==
    pc = "summarized" =>
        /\ summary.printed # None
        /\ \E e, s \in DOMAIN summary.printed.counts :
              /\ e # s
              /\ summary.printed.counts[e] = Len(results)
              /\ summary.printed.counts[s] = Skipped
              /\ summary.printed.counts[e] + summary.printed.counts[s] = Len(all_games)

(* a run that skipped every step, summarized *)
C22_AllSkipped == pc = "summarized" /\ results = <<>> /\ Len(all_games) > 0

(* C23: summarize_backtest's win rate is wins divided by the number of    *)
(* bets that are neither PUSH nor filtered (0 when there are none);       *)
(* wins + losses is that number of bets, and wins + losses + pushes       *)
(* + filtered is the number of outcome rows.                               *)
FilteredRows == {k \in 1..Len(results) : FilterFires(results[k])}
BetRows == {k \in 1..Len(results) :
               results[k].result # "PUSH" /\ ~FilterFires(results[k])}
WonRows == {k \in BetRows : results[k].result = "WIN"}
C23_WinRateAmongBets ==
    (pc = "summarized" /\ summary.returned # None) =>
        LET counts == summary.printed.counts
        IN  /\ summary.returned.win_rate =
                  (IF BetRows = {} THEN I(0)
                   ELSE R(Cardinality(WonRows), Cardinality(BetRows)))
            /\ counts.wins + counts.losses = Cardinality(BetRows)
            /\ counts.wins + counts.losses + counts.pushes
                  + Cardinality({k \in FilteredRows : results[k].result # "PUSH"})
               = Len(results)

(* the same over runs none of whose rows the filter rejects *)
C23_WithoutFilteredRows == FilteredRows = {} => C23_WinRateAmongBets
C23_Witness ==
    /\ pc = "summarized" /\ summary.returned # None /\ FilteredRows = {}
    /\ summary.printed.counts.wins > 0 /\ summary.printed.counts.losses > 0

(* C29: in backtest_1000_runs a run whose backtest_model call returned    *)
(* normally is no error: the rows whose filtered flag is False are        *)
(* selected and their wins and losses added to the combined totals.       *)
C29_TallyUnfiltered ==
    pc = "tallied" =>
        /\ tally.errors = 0
        /\ tally.all_results = 1
        /\ tally.total_wins = Cardinality(WonRows)
        /\ tally.total_losses =
              Cardinality({k \in BetRows : results[k].result = "LOSS"})

----------------------------------------------------------------------------
(* src/backtest_live.py: backtest_past_week as a state machine.            *)
(* pc: "week_start" (before line 131), "week_loop", "week_done".           *)

(* lines 36-59: a finished game of the scoreboard, its line reconstructed *)
(* as the total less 1.5                                                   *)
EspnGame(date, home, away, home_pts, away_pts) ==
    Row(0, date, home, away, I(home_pts), I(away_pts),
        RSub(I(home_pts + away_pts), R(3, 2)))

(* the scores the third game may end with *)
WeekScores == 116..120

(* the frames get_past_week_games returns: two games between BOS and MIA, *)
(* a third with a score out of WeekScores, then DEN's first game          *)
WeekFrames ==
    { reset_index(<< EspnGame(1, "BOS", "MIA", 112, 104),
                     EspnGame(2, "MIA", "BOS", 108, 106),
                     EspnGame(3, "BOS", "MIA", h, 114),
                     EspnGame(4, "DEN", "BOS", 101, 99),
                     EspnGame(5, "MIA", "BOS", 99, 111) >>) : h \in WeekScores }

InitWeek ==
    /\ raw_games \in WeekFrames
    /\ all_games = raw_games /\ idx = 0 /\ model_data = NoData
    /\ results = <<>> /\ trace = <<>> /\ pc = "week_start"
    /\ \E w \in Worlds :
          /\ espn_scoreboard = w[1]
          /\ espn_injuries = w[2]
          /\ espn_standings = w[3]
          /\ hash_offset = w[4]
    /\ odds_feed = NoData
    /\ FreshStart
    /\ est = NoCall /\ summary = NoCall /\ tally = NoTally

(* line 143 *)
WeekMinTrainingGames == 2

(* line 131 *)
WeekSort ==
    /\ pc = "week_start"
    /\ \E sorted \in sort_values(all_games) : all_games' = reset_index(sorted)
    /\ pc' = "week_loop"
    /\ UNCHANGED <<raw_games, idx, model_data, results, trace, world,
                   _PACE_CACHE, _INJURY_CACHE, io, est, report>>

(* lines 143-144 *)
WeekBelowMinimum ==
    /\ pc = "week_loop" /\ idx < Len(all_games)
    /\ Len(TrainingData(all_games, idx)) < WeekMinTrainingGames
    /\ idx' = idx + 1
    /\ trace' = Append(trace, "below_minimum")
    /\ UNCHANGED <<raw_games, all_games, model_data, results, pc, world,
                   _PACE_CACHE, _INJURY_CACHE, io, est, report>>

(* lines 151-152 *)
WeekMissingTeam ==
    /\ pc = "week_loop" /\ idx < Len(all_games)
    /\ ~(Len(TrainingData(all_games, idx)) < WeekMinTrainingGames)
    /\ model_data' = calculate_team_totals(TrainingData(all_games, idx), TRUE)
    /\ predict_total_raises(model_data', CurrentGame(all_games, idx).away,
                            CurrentGame(all_games, idx).home)
    /\ idx' = idx + 1
    /\ trace' = Append(trace, "missing_team")
    /\ UNCHANGED <<raw_games, all_games, results, pc, world,
                   _PACE_CACHE, _INJURY_CACHE, io, est, report>>

(* lines 170-175 *)
ClassifyWeek(predicted_over, actual_over) ==
    IF (predicted_over /\ actual_over) \/ (~predicted_over /\ ~actual_over)
    THEN "WIN" ELSE "LOSS"

(* lines 162-186: the row appended for the game *)
WeekOutcome(game, predicted) ==
    LET edge == calculate_edge(predicted, game.sportsbook_total)
        actual_total == game.total_pts
        predicted_over == RGt(predicted, game.sportsbook_total)
        actual_over == RGt(actual_total, game.sportsbook_total)
    IN  [date |-> game.date, matchup |-> <<game.away, game.home>>,
         actual |-> actual_total, predicted |-> predicted,
         line |-> game.sportsbook_total, edge |-> edge,
         bet |-> IF predicted_over THEN "OVER" ELSE "UNDER",
         result |-> ClassifyWeek(predicted_over, actual_over)]

(* lines 146-186 with both teams known; predict_total asks for the pace   *)
(* map and the team records (model.py lines 113, 117)                      *)
WeekEvaluate ==
    /\ pc = "week_loop" /\ idx < Len(all_games)
    /\ ~(Len(TrainingData(all_games, idx)) < WeekMinTrainingGames)
    /\ model_data' = calculate_team_totals(TrainingData(all_games, idx), TRUE)
    /\ LET game == CurrentGame(all_games, idx)
           pace == get_team_pace_from_espn(_PACE_CACHE, pace_json, now,
                                           espn_scoreboard, hash_offset)
           records == get_team_records(espn_standings)
       IN  /\ ~predict_total_raises(model_data', game.away, game.home)
           /\ _PACE_CACHE' = pace.cache
           /\ pace_json' = pace.file
           /\ requests' = [requests EXCEPT !.pace = @ + Asked(pace),
                                           !.standings = @ + 1]
           /\ results' = Append(results, WeekOutcome(game,
                             predict_total(model_data', game.away, game.home, NoData,
                                           R(105, 100), I(0), <<>>, pace.ret, records)))
    /\ idx' = idx + 1
    /\ trace' = Append(trace, "recorded")
    /\ UNCHANGED <<raw_games, all_games, pc, world, _INJURY_CACHE, injuries_json,
                   served, est, report>>

(* lines 203-235: the loop is over, the summary is printed *)
WeekReturn ==
    /\ pc = "week_loop" /\ idx >= Len(all_games)
    /\ pc' = "week_done"
    /\ UNCHANGED <<raw_games, all_games, idx, model_data, results, trace, world,
                   _PACE_CACHE, _INJURY_CACHE, io, est, report>>

NextWeek == WeekSort \/ WeekBelowMinimum \/ WeekMissingTeam \/ WeekEvaluate
            \/ WeekReturn

SpecWeek == InitWeek /\ [][NextWeek]_vars

(* C28: in backtest_past_week a game whose edge is exactly 0 is recorded  *)
(* as PUSH, not as WIN or LOSS.                                            *)
C28_ZeroEdgeIsPush ==
    \A k \in 1..Len(results) :
        results[k].edge = I(0) => results[k].result = "PUSH"

(* C24: backtest_model makes one pass over the sorted log and terminates: *)
(* every index is visited exactly once in increasing order, at most one   *)
(* row is appended per index, a row once appended is never changed or     *)
(* removed, and the rows are in non-decreasing date order.                *)
C24_State ==
    /\ pc # "start" => IsSortedByDate(all_games)
    /\ Len(trace) = idx /\ idx <= Len(all_games)
    /\ \A k \in 1..Len(results) :
          /\ results[k].training_games < idx
          /\ \A m \in (k + 1)..Len(results) :
                /\ results[k].training_games < results[m].training_games
                /\ results[k].date <= results[m].date
C24_Step ==
    /\ results' = results
       \/ \E row \in {results'[Len(results')]} :
             results' = Append(results, row) /\ row.training_games = idx
    /\ trace' = trace \/ (Len(trace') = Len(trace) + 1 /\ SubSeq(trace', 1, Len(trace)) = trace)
    /\ all_games' = all_games \/ pc = "start"
    /\ pc = "loop" =>
          \/ idx < Len(all_games) /\ idx' = idx + 1 /\ pc' = "loop"
          \/ idx = Len(all_games) /\ idx' = idx /\ pc' = "done"
    /\ pc \in {"done", "summarized", "tallied"} =>
          (idx' = idx /\ results' = results /\ pc' # "loop")
C24_OnePass == []C24_State /\ [][C24_Step]_vars

(* a run over a log that came newest first is over: all indices visited,  *)
(* some skipped, several rows recorded                                     *)
C24_Witness ==
    /\ pc = "done" /\ idx = Len(all_games) /\ Len(trace) = NGames
    /\ raw_games # all_games
    /\ Len(results) >= 3 /\ CountOf("raised") + CountOf("missing_team") >= 1

C30_Won ==
    \E r \in Rows : r.actual_total = r.sportsbook_total /\ r.result = "WIN"
C30_Lost ==
    \E r \in Rows : r.actual_total = r.sportsbook_total /\ r.result = "LOSS"

(* C25: is_back_to_back(game_date, recent_games, team) is True whenever   *)
(* recent_games holds a game the team played, home or away, on the        *)
(* calendar day before game_date, and predict_total lowers the prediction *)
(* by 1.0 for each of the two teams for which it is True.                  *)
PlayedDayBefore(game_date, recent_games, team) ==
    \E p \in 1..Len(recent_games) :
        /\ recent_games[p].date = game_date - 1
        /\ team \in {recent_games[p].home, recent_games[p].away}
EstGameDate == est.recent_games[1].date
EstTiredTeams ==
    {t \in {est.home_team, est.away_team} :
        PlayedDayBefore(EstGameDate, est.recent_games, t)}
C25_BackToBack ==
    (EstReturned /\ est.recent_games # <<>>) =>
        /\ \A t \in EstTiredTeams :
              is_back_to_back(EstGameDate, est.recent_games, t)
        /\ est.result =
              round(RAdd(RAdd(RSub(EstCore, I(Cardinality(EstTiredTeams))),
                              get_pace_adjusted_total(I(0), est.away_team,
                                                      est.home_team, est.pace_map)),
                         EstStreak), 1)

(* without a game on the day before, nothing is taken off *)
C25_NoneTired ==
    (EstReturned /\ est.recent_games # <<>> /\ EstTiredTeams = {}) =>
        EstB2b = I(0)

(* C27: calculate_home_court_advantage returns for every team a bonus in  *)
(* [0, 7]: the default 3.5 when the team has no home games or no away     *)
(* games in the statistics calculate_team_totals produced, and otherwise  *)
(* avg_scored_home - avg_scored_away clamped to [0, 7].                    *)
EstBonusesComputed == est.called /\ est.home_court_bonuses \notin BonusMaps
C27_HomeCourtRange ==
    EstBonusesComputed =>
        \A t \in DOMAIN est.model_data :
            LET bonus == est.home_court_bonuses[t]
                diff  == RSub(est.model_data[t].avg_scored_home,
                              est.model_data[t].avg_scored_away)
            IN  /\ InRange(bonus, I(0), I(7))
                /\ IF HomeGamesOf(est.games, t) = {} \/ AwayGamesOf(est.games, t) = {}
                   THEN bonus = R(35, 10)
                   ELSE bonus = (IF RLt(diff, I(0)) THEN I(0)
                                 ELSE IF RGt(diff, I(7)) THEN I(7) ELSE diff)

(* the part that holds: every bonus lies in [0, 7], and a team with home  *)
(* and away games gets the clamped difference                              *)
C27_RangeAndClamp ==
    EstBonusesComputed =>
        \A t \in DOMAIN est.model_data :
            LET bonus == est.home_court_bonuses[t]
                diff  == RSub(est.model_data[t].avg_scored_home,
                              est.model_data[t].avg_scored_away)
            IN  /\ InRange(bonus, I(0), I(7))
                /\ (HomeGamesOf(est.games, t) # {} /\ AwayGamesOf(est.games, t) # {})
                      => bonus = (IF RLt(diff, I(0)) THEN I(0)
                                  ELSE IF RGt(diff, I(7)) THEN I(7) ELSE diff)
(* bonuses strictly between the clamps, and both clamps, were computed *)
C27_Inside ==
    /\ EstBonusesComputed
    /\ \E t \in DOMAIN est.model_data :
          RGt(est.home_court_bonuses[t], I(0)) /\ RLt(est.home_court_bonuses[t], I(7))
          /\ est.home_court_bonuses[t] # R(35, 10)

====
